---- MODULE Spec2Model ----
(***************************************************************************)
(* State-machine model of the airtable-server request pipeline:            *)
(* startup (server.ts startServer), the chat-completions handler           *)
(* (dispatch over the registered agents), the Query and Create agents,     *)
(* the response extractor (QueryAgent.extractJSON) and the table locator   *)
(* (extractTableFromMessage).                                              *)
(*                                                                         *)
(* Text is modelled as a sequence of one-character strings, so that        *)
(* toLowerCase, includes, startsWith, trim, the regular expression of      *)
(* extractJSON and JSON.parse are computed character by character.         *)
(***************************************************************************)
EXTENDS Integers, Sequences, FiniteSets, TLC

(***************************************************************************)
(* Bounds of the model.                                                    *)
(***************************************************************************)
\* number of requests the server handles one after another
MaxRequests == 2
\* largest number of records a find returns
MaxFound == 1

(***************************************************************************)
(* Text primitives (JavaScript String methods).                            *)
(***************************************************************************)
Upper == <<"A", "B", "C", "D", "E", "F", "G", "H", "I", "J", "K", "L", "M",
           "N", "O", "P", "Q", "R", "S", "T", "U", "V", "W", "X", "Y", "Z">>
Lower == <<"a", "b", "c", "d", "e", "f", "g", "h", "i", "j", "k", "l", "m",
           "n", "o", "p", "q", "r", "s", "t", "u", "v", "w", "x", "y", "z">>

LowerChar(c) ==
    IF \E k \in 1..26 : Upper[k] = c
    THEN Lower[CHOOSE k \in 1..26 : Upper[k] = c]
    ELSE c

\* String.prototype.toLowerCase
toLowerCase(s) == [i \in 1..Len(s) |-> LowerChar(s[i])]

\* s has sub at position i
HasAt(s, sub, i) ==
    /\ i >= 1
    /\ i + Len(sub) - 1 <= Len(s)
    /\ \A k \in 1..Len(sub) : s[i + k - 1] = sub[k]

\* String.prototype.includes
includes(s, sub) == \E i \in 1..(Len(s) + 1) : HasAt(s, sub, i)

\* String.prototype.startsWith
startsWith(s, sub) == HasAt(s, sub, 1)

\* String.prototype.trim (the only white space of the model is the blank)
trim(s) ==
    LET ink == {i \in 1..Len(s) : s[i] # " "}
    IN  IF ink = {} THEN <<>>
        ELSE SubSeq(s, CHOOSE i \in ink : \A j \in ink : i <= j,
                       CHOOSE i \in ink : \A j \in ink : i >= j)

(***************************************************************************)
(* JavaScript values.  A value is a record tagged by t.                    *)
(***************************************************************************)
Undefined == [t |-> "undefined"]
JNull == [t |-> "null"]
JBool(b) == [t |-> "bool", v |-> b]
JNum(n) == [t |-> "num", v |-> n]
JStr(s) == [t |-> "str", v |-> s]
JArr(items) == [t |-> "arr", v |-> items]
\* members is a sequence of <<key, value>> pairs in source order
JObj(members) == [t |-> "obj", v |-> members]

\* ToBoolean, as used by the || operator
Truthy(x) ==
    CASE x.t = "undefined" -> FALSE
      [] x.t = "null" -> FALSE
      [] x.t = "bool" -> x.v
      [] x.t = "num" -> x.v # 0
      [] x.t = "str" -> Len(x.v) > 0
      [] OTHER -> TRUE

\* a || b
Or(a, b) == IF Truthy(a) THEN a ELSE b

\* typeof x === 'object' && x !== null
IsNonNullObject(x) == x.t \in {"obj", "arr"}

\* Property read x.key of a parsed value: the last member of that name wins;
\* reading a property of an array, string, number or boolean that has no
\* such property gives undefined.  (Reading a property of null or undefined
\* throws a TypeError: callers test CanRead first.)
CanRead(x) == x.t \notin {"null", "undefined"}

Get(x, key) ==
    IF x.t # "obj" THEN Undefined
    ELSE LET hits == {i \in 1..Len(x.v) : x.v[i][1] = key}
         IN  IF hits = {} THEN Undefined
             ELSE x.v[CHOOSE i \in hits : \A j \in hits : i >= j][2]

(***************************************************************************)
(* JSON.parse, by recursive descent over the characters.  The grammar is   *)
(* JSON without string escapes, fractions and exponents (the texts of the  *)
(* model hold none); the only white space is the blank.                    *)
(***************************************************************************)
Digits == <<"0", "1", "2", "3", "4", "5", "6", "7", "8", "9">>
IsDigit(c) == \E k \in 1..10 : Digits[k] = c
DigitVal(c) == (CHOOSE k \in 1..10 : Digits[k] = c) - 1

ParseFail == [ok |-> FALSE]
ParseOk(val, pos) == [ok |-> TRUE, val |-> val, pos |-> pos]

RECURSIVE SkipWs(_, _)
SkipWs(s, i) == IF i <= Len(s) /\ s[i] = " " THEN SkipWs(s, i + 1) ELSE i

RECURSIVE DigitEnd(_, _)
DigitEnd(s, i) == IF i <= Len(s) /\ IsDigit(s[i]) THEN DigitEnd(s, i + 1) ELSE i

RECURSIVE DigitsVal(_)
DigitsVal(ds) ==
    IF ds = <<>> THEN 0
    ELSE 10 * DigitsVal(SubSeq(ds, 1, Len(ds) - 1)) + DigitVal(ds[Len(ds)])

\* s[i] is the opening quote
ParseString(s, i) ==
    LET close == {j \in (i + 1)..Len(s) : s[j] = "\""}
    IN  IF close = {} THEN ParseFail
        ELSE LET j == CHOOSE c \in close : \A d \in close : c <= d
             IN  ParseOk(JStr(SubSeq(s, i + 1, j - 1)), j + 1)

\* s[i] is a digit or the minus sign
ParseNumber(s, i) ==
    LET neg == s[i] = "-"
        st == IF neg THEN i + 1 ELSE i
        en == DigitEnd(s, st)
        mag == DigitsVal(SubSeq(s, st, en - 1))
    IN  IF en = st \/ (en - st > 1 /\ s[st] = "0") THEN ParseFail
        ELSE ParseOk(JNum(IF neg THEN 0 - mag ELSE mag), en)

LitTrue == <<"t", "r", "u", "e">>
LitFalse == <<"f", "a", "l", "s", "e">>
LitNull == <<"n", "u", "l", "l">>

RECURSIVE ParseValue(_, _)
RECURSIVE ParseMembers(_, _, _)
RECURSIVE ParseElements(_, _, _)

\* after the opening brace or a comma: "key" : value , ... }
ParseMembers(s, i0, acc) ==
    LET i == SkipWs(s, i0)
    IN  IF i > Len(s) \/ s[i] # "\"" THEN ParseFail
        ELSE LET k == ParseString(s, i)
             IN  IF ~k.ok THEN ParseFail
                 ELSE LET c == SkipWs(s, k.pos)
                      IN  IF c > Len(s) \/ s[c] # ":" THEN ParseFail
                          ELSE LET v == ParseValue(s, c + 1)
                               IN  IF ~v.ok THEN ParseFail
                                   ELSE LET d == SkipWs(s, v.pos)
                                            acc2 == Append(acc, <<k.val.v, v.val>>)
                                        IN  IF d > Len(s) THEN ParseFail
                                            ELSE IF s[d] = "," THEN ParseMembers(s, d + 1, acc2)
                                            ELSE IF s[d] = "}" THEN ParseOk(JObj(acc2), d + 1)
                                            ELSE ParseFail

\* after the opening bracket or a comma: value , ... ]
ParseElements(s, i0, acc) ==
    LET v == ParseValue(s, i0)
    IN  IF ~v.ok THEN ParseFail
        ELSE LET d == SkipWs(s, v.pos)
                 acc2 == Append(acc, v.val)
             IN  IF d > Len(s) THEN ParseFail
                 ELSE IF s[d] = "," THEN ParseElements(s, d + 1, acc2)
                 ELSE IF s[d] = "]" THEN ParseOk(JArr(acc2), d + 1)
                 ELSE ParseFail

ParseValue(s, i0) ==
    LET i == SkipWs(s, i0)
    IN  IF i > Len(s) THEN ParseFail
        ELSE IF s[i] = "{" THEN
                 LET j == SkipWs(s, i + 1)
                 IN  IF j <= Len(s) /\ s[j] = "}" THEN ParseOk(JObj(<<>>), j + 1)
                     ELSE ParseMembers(s, j, <<>>)
        ELSE IF s[i] = "[" THEN
                 LET j == SkipWs(s, i + 1)
                 IN  IF j <= Len(s) /\ s[j] = "]" THEN ParseOk(JArr(<<>>), j + 1)
                     ELSE ParseElements(s, j, <<>>)
        ELSE IF s[i] = "\"" THEN ParseString(s, i)
        ELSE IF s[i] = "-" \/ IsDigit(s[i]) THEN ParseNumber(s, i)
        ELSE IF HasAt(s, LitTrue, i) THEN ParseOk(JBool(TRUE), i + 4)
        ELSE IF HasAt(s, LitFalse, i) THEN ParseOk(JBool(FALSE), i + 5)
        ELSE IF HasAt(s, LitNull, i) THEN ParseOk(JNull, i + 4)
        ELSE ParseFail

\* JSON.parse(text): [ok |-> TRUE, val |-> value], or [ok |-> FALSE] for a
\* SyntaxError
JSONParse(s) ==
    LET r == ParseValue(s, 1)
    IN  IF r.ok /\ SkipWs(s, r.pos) > Len(s)
        THEN [ok |-> TRUE, val |-> r.val]
        ELSE [ok |-> FALSE]

(***************************************************************************)
(* Response extractor: QueryAgent.extractJSON.                             *)
(***************************************************************************)
KeyFields == <<"f", "i", "e", "l", "d", "s">>
KeyFilterByFormula == <<"f", "i", "l", "t", "e", "r", "B", "y", "F", "o", "r", "m", "u", "l", "a">>
KeyMaxRecords == <<"m", "a", "x", "R", "e", "c", "o", "r", "d", "s">>

\* the maxRecords default of extractJSON and of the select call
DefaultMaxRecords == 10

\* a call that returns val / a call that throws err
Return(val) == [threw |-> FALSE, val |-> val]
Throw(err) == [threw |-> TRUE, err |-> err]

DefaultParams ==
    [fields |-> JArr(<<>>), filterByFormula |-> JStr(<<>>),
     maxRecords |-> JNum(DefaultMaxRecords)]

\* a lazy match, /\{[\s\S]*?\}/: from the first "{" to the first "}" after it
RegexMatch_NonGreedy(text) ==
    LET opens == {i \in 1..Len(text) : text[i] = "{"}
        first == CHOOSE i \in opens : \A j \in opens : i <= j
        closes == {i \in 1..Len(text) : text[i] = "}" /\ i > first}
        last == CHOOSE i \in closes : \A j \in closes : i <= j
    IN  IF opens = {} THEN [found |-> FALSE]
        ELSE IF closes = {} THEN [found |-> FALSE]
        ELSE [found |-> TRUE, str |-> SubSeq(text, first, last)]

\* text.match(/\{[\s\S]*\}/): from the first "{" to the last "}" after it
RegexMatch(text) ==
    LET opens == {i \in 1..Len(text) : text[i] = "{"}
        first == CHOOSE i \in opens : \A j \in opens : i <= j
        closes == {i \in 1..Len(text) : text[i] = "}" /\ i > first}
        last == CHOOSE i \in closes : \A j \in closes : i >= j
    IN  IF opens = {} THEN [found |-> FALSE]
        ELSE IF closes = {} THEN [found |-> FALSE]
        ELSE [found |-> TRUE, str |-> SubSeq(text, first, last)]

\* extractJSON without the try/catch around JSON.parse
extractJSON_NoCatch(text) ==
    LET jsonMatch == RegexMatch(text)
    IN  IF jsonMatch.found
        THEN LET parsed == JSONParse(jsonMatch.str)
             IN  IF ~parsed.ok THEN Throw("SyntaxError")
                 ELSE IF IsNonNullObject(parsed.val)
                 THEN Return([fields |-> Or(Get(parsed.val, KeyFields), JArr(<<>>)),
                              filterByFormula |->
                                  Or(Get(parsed.val, KeyFilterByFormula), JStr(<<>>)),
                              maxRecords |->
                                  Or(Get(parsed.val, KeyMaxRecords),
                                     JNum(DefaultMaxRecords))])
                 ELSE Return(DefaultParams)
        ELSE Return(DefaultParams)

extractJSON(text) ==
    LET jsonMatch == RegexMatch(text)
    IN  IF jsonMatch.found
        THEN LET parsed == JSONParse(jsonMatch.str)
             IN  IF parsed.ok /\ IsNonNullObject(parsed.val)
                 THEN Return([fields |-> Or(Get(parsed.val, KeyFields), JArr(<<>>)),
                              filterByFormula |->
                                  Or(Get(parsed.val, KeyFilterByFormula), JStr(<<>>)),
                              maxRecords |->
                                  Or(Get(parsed.val, KeyMaxRecords),
                                     JNum(DefaultMaxRecords))])
                 \* SyntaxError caught at line 49, or not an object
                 ELSE Return(DefaultParams)
        ELSE Return(DefaultParams)

(***************************************************************************)
(* Candidacy checks: canHandle of each agent variant.                      *)
(***************************************************************************)
queryKeywords ==
    <<<<"f", "i", "n", "d">>, <<"s", "e", "a", "r", "c", "h">>, <<"s", "h", "o", "w">>, <<"g", "e", "t">>, <<"l", "i", "s", "t">>, <<"w", "h", "a", "t">>, <<"w", "h", "o">>,
      <<"w", "h", "i", "c", "h">>, <<"g", "i", "v", "e">>, <<"t", "e", "l", "l", " ", "m", "e">>, <<"d", "e", "t", "a", "i", "l", "s">>, <<"m", "o", "r", "e", " ", "i", "n", "f", "o", "r", "m", "a", "t", "i", "o", "n">>,
      <<"i", "n", "f", "o", " ", "o", "n">>, <<"a", "b", "o", "u", "t">>, <<"d", "e", "s", "c", "r", "i", "b", "e">>>>

createKeywords == <<<<"c", "r", "e", "a", "t", "e">>, <<"a", "d", "d">>, <<"n", "e", "w">>, <<"i", "n", "s", "e", "r", "t">>, <<"m", "a", "k", "e">>>>

\* keywords.some((keyword) => lowerMessage.includes(keyword))
hasKeyword(keywords, message) ==
    LET lowerMessage == toLowerCase(message)
    IN  \E k \in 1..Len(keywords) : includes(lowerMessage, keywords[k])

QueryCanHandle(message) == hasKeyword(queryKeywords, message)

CreateCanHandle(message) == hasKeyword(createKeywords, message)

\* the phrasings of ListTablesAgent.canHandle
listTablesKeywords ==
    <<<<"w", "h", "a", "t", " ", "t", "a", "b", "l", "e", "s">>, <<"l", "i", "s", "t", " ", "t", "a", "b", "l", "e", "s">>, <<"s", "h", "o", "w", " ", "t", "a", "b", "l", "e", "s">>, <<"a", "v", "a", "i", "l", "a", "b", "l", "e", " ", "t", "a", "b", "l", "e", "s">>,
      <<"w", "h", "i", "c", "h", " ", "t", "a", "b", "l", "e", "s">>, <<"t", "a", "b", "l", "e", "s", " ", "d", "o", " ", "y", "o", "u", " ", "h", "a",
       "v", "e">>, <<"w", "h", "a", "t", " ", "a", "r", "e", " ", "t", "h", "e", " ", "t", "a", "b",
       "l", "e", "s">>>>

ListTablesCanHandle(message) == hasKeyword(listTablesKeywords, message)

\* the agents array of server.ts, in registration order
agents == <<"QueryAgent", "CreateAgent">>

canHandle(agent, message) ==
    IF agent = "QueryAgent" THEN QueryCanHandle(message)
    ELSE CreateCanHandle(message)

(***************************************************************************)
(* Configuration and schema utilities.                                     *)
(***************************************************************************)
\* config.airtable has the keys apiKey and baseId only: tableName is absent
ConfigTableName == Undefined

\* this.tableName = tableName || config.airtable.tableName, with the agents
\* constructed without an argument
AgentTableName == Or(Undefined, ConfigTableName)

\* the eight phrasings tried for one table, in source order
patterns(lowerTableName) ==
    <<<<"i", "n", " ", "t", "h", "e", " ">> \o lowerTableName \o <<" ", "t", "a", "b", "l", "e">>,
      <<"f", "r", "o", "m", " ", "t", "h", "e", " ">> \o lowerTableName \o <<" ", "t", "a", "b", "l", "e">>,
      <<"i", "n", " ">> \o lowerTableName \o <<" ", "t", "a", "b", "l", "e">>,
      <<"f", "r", "o", "m", " ">> \o lowerTableName \o <<" ", "t", "a", "b", "l", "e">>,
      <<"i", "n", " ", "t", "h", "e", " ">> \o lowerTableName,
      <<"f", "r", "o", "m", " ", "t", "h", "e", " ">> \o lowerTableName,
      <<"i", "n", " ">> \o lowerTableName,
      <<"f", "r", "o", "m", " ">> \o lowerTableName>>

\* patterns.some((pattern) => lowerMessage.includes(pattern))
TableMentioned(message, table) ==
    LET lowerMessage == toLowerCase(message)
        ps == patterns(toLowerCase(table.name))
    IN  \E k \in 1..Len(ps) : includes(lowerMessage, ps[k])

\* the loop over the tables without its early return: the last match wins
extractTableFromMessage_LastMatch(message, listing) ==
    LET hits == {i \in 1..Len(listing) : TableMentioned(message, listing[i])}
    IN  IF Len(listing) = 0 THEN JNull
        ELSE IF hits = {} THEN JNull
        ELSE JStr(listing[CHOOSE i \in hits : \A j \in hits : i >= j].name)

\* listing is what fetchBaseTables returned; the result is a table name or null
extractTableFromMessage(message, listing) ==
    LET hits == {i \in 1..Len(listing) : TableMentioned(message, listing[i])}
    IN  IF Len(listing) = 0 THEN JNull
        ELSE IF hits = {} THEN JNull
        ELSE JStr(listing[CHOOSE i \in hits : \A j \in hits : i <= j].name)

TblPrefix == <<"t", "b", "l">>

\* listing is what fetchBaseTables returns when the name looks like an id
resolveTableName(tableNameOrId, listing) ==
    IF tableNameOrId.t # "str" THEN Throw("TypeError")
    ELSE IF startsWith(tableNameOrId.v, TblPrefix)
         THEN LET hits == {i \in 1..Len(listing) : listing[i].id = tableNameOrId.v}
              IN  IF hits = {} THEN Return(tableNameOrId)
                  ELSE Return(JStr(listing[CHOOSE i \in hits : \A j \in hits : i <= j].name))
         ELSE Return(tableNameOrId)

(***************************************************************************)
(* Inputs: user texts, requests, table listings and completion texts.      *)
(***************************************************************************)
\* "show me how to create a task": a Query keyword and a Create keyword
MsgShowCreate == <<"s", "h", "o", "w", " ", "m", "e", " ", "h", "o", "w", " ", "t", "o", " ", "c",
       "r", "e", "a", "t", "e", " ", "a", " ", "t", "a", "s", "k">>
\* "find all records in the Tasks table"
MsgFindTasks == <<"f", "i", "n", "d", " ", "a", "l", "l", " ", "r", "e", "c", "o", "r", "d", "s",
       " ", "i", "n", " ", "t", "h", "e", " ", "T", "a", "s", "k", "s", " ", "t", "a",
       "b", "l", "e">>
\* "add a task": a Create keyword only, no table
MsgAddTask == <<"a", "d", "d", " ", "a", " ", "t", "a", "s", "k">>
\* "hello": no keyword
MsgHello == <<"h", "e", "l", "l", "o">>
\* "Add one from Projects": a Create keyword and a table
MsgAddProjects == <<"A", "d", "d", " ", "o", "n", "e", " ", "f", "r", "o", "m", " ", "P", "r", "o",
       "j", "e", "c", "t", "s">>
\* "GET from projects in tasks": a Query keyword in capitals and two tables
MsgGetBoth == <<"G", "E", "T", " ", "f", "r", "o", "m", " ", "p", "r", "o", "j", "e", "c", "t",
       "s", " ", "i", "n", " ", "t", "a", "s", "k", "s">>
\* "what tables": a Query keyword, no table
MsgWhatTables == <<"w", "h", "a", "t", " ", "t", "a", "b", "l", "e", "s">>

UserTexts ==
    {MsgShowCreate, MsgFindTasks, MsgAddTask, MsgHello, MsgAddProjects,
     MsgGetBoth, MsgWhatTables}

Entry(role, content) == [role |-> role, content |-> content]

\* Request bodies: [hasMessages |-> FALSE] is a body without a messages
\* array; otherwise messages is the ordered array of {role, content}.
Body(messages) == [hasMessages |-> TRUE, messages |-> messages]

Requests ==
    {[hasMessages |-> FALSE], Body(<<>>),
     Body(<<Entry("system", MsgFindTasks)>>),
     Body(<<Entry("system", MsgHello), Entry("assistant", MsgAddTask)>>)}
    \cup {Body(<<Entry("user", m)>>) : m \in UserTexts}
    \cup {Body(<<Entry("system", MsgHello), Entry("user", m)>>) :
              m \in {MsgShowCreate, MsgAddTask}}
    \cup {Body(<<Entry("user", m[1]), Entry("assistant", MsgHello),
                 Entry("user", m[2])>>) :
              m \in {<<MsgFindTasks, MsgAddTask>>, <<MsgAddTask, MsgFindTasks>>,
                     <<MsgHello, MsgFindTasks>>, <<MsgGetBoth, MsgHello>>,
                     <<MsgAddProjects, MsgAddProjects>>}}

TableTasks == [id |-> <<"t", "b", "l", "T", "A", "S", "K", "S">>, name |-> <<"T", "a", "s", "k", "s">>]
TableProjects == [id |-> <<"t", "b", "l", "P", "R", "O", "J">>, name |-> <<"P", "r", "o", "j", "e", "c", "t", "s">>]

\* the table listings a base may have, in the store's listing order
Bases == {<<TableTasks, TableProjects>>, <<TableProjects, TableTasks>>}

\* Completion texts: commentary, a body, commentary.
Leads == {<<>>, <<"S", "u", "r", "e", "!", " ">>, <<"U", "s", "e", " ", "{", "N", "a", "m", "e", "}", ":", " ">>, <<"o", "k", "}", " ">>}
Trails == {<<>>, <<" ", "H", "o", "p", "e", " ", "t", "h", "a", "t", " ", "h", "e", "l", "p", "s",
       ".">>, <<" ", ":", "}">>, <<" ", "{", "x">>}
CompletionBodies ==
    {<<"{", "\"", "f", "i", "l", "t", "e", "r", "B", "y", "F", "o", "r", "m", "u", "l",
       "a", "\"", ":", " ", "\"", "X", "\"", ",", " ", "\"", "m", "a", "x", "R", "e", "c",
       "o", "r", "d", "s", "\"", ":", " ", "3", "}">>,
     <<"{", "\"", "f", "i", "l", "t", "e", "r", "B", "y", "F", "o", "r", "m", "u", "l",
       "a", "\"", ":", " ", "\"", "S", "E", "A", "R", "C", "H", "(", "'", "X", "'", ",",
       " ", "{", "N", "a", "m", "e", "}", ")", "\"", ",", " ", "\"", "m", "a", "x", "R",
       "e", "c", "o", "r", "d", "s", "\"", ":", " ", "1", "}">>,
     <<"{", "}">>,
     <<"{", "\"", "f", "i", "e", "l", "d", "s", "\"", ":", " ", "[", "\"", "N", "a", "m",
       "e", "\"", "]", ",", " ", "\"", "m", "a", "x", "R", "e", "c", "o", "r", "d", "s",
       "\"", ":", " ", "0", "}">>,
     <<"{", "\"", "f", "i", "e", "l", "d", "s", "\"", ":", " ", "\"", "N", "a", "m", "e",
       "\"", ",", " ", "\"", "m", "a", "x", "R", "e", "c", "o", "r", "d", "s", "\"", ":",
       " ", "\"", "5", "\"", "}">>,
     <<"{", "\"", "f", "i", "e", "l", "d", "s", "\"", ":", " ", "{", "\"", "N", "a", "m",
       "e", "\"", ":", " ", "\"", "a", "\"", "}", "}">>,
     <<"{", "\"", "n", "a", "m", "e", "\"", ":", " ", "\"", "a", "\"", "}">>,
     <<"I", " ", "c", "a", "n", "n", "o", "t", " ", "h", "e", "l", "p", " ", "w", "i",
       "t", "h", " ", "t", "h", "a", "t", ".">>,
     <<"{", "m", "a", "x", "R", "e", "c", "o", "r", "d", "s", ":", " ", "3", "}">>,
     <<"4", "2">>,
     <<"n", "u", "l", "l">>,
     <<>>}

CompletionTexts ==
    {l \o b \o t : l \in Leads, b \in CompletionBodies, t \in Trails}

\* texts of the summary completion
SummaryTexts == {<<"I", " ", "f", "o", "u", "n", "d", " ", "i", "t", ".">>, <<>>}

(***************************************************************************)
(* State.                                                                  *)
(***************************************************************************)
VARIABLES
    server,             \* "starting", "validated", "connected", "listening", "exited"
    cfg,                \* which of AIRTABLE_API_KEY, AIRTABLE_BASE_ID are set
    isConnected,        \* LLMClient.isConnected
    base,               \* the table listing of the Airtable base
    served,             \* requests received so far
    pc,                 \* position of the request handler
    req,                \* the request body
    userMessage,        \* the content the handler dispatches on
    agentIdx,           \* position of the for loop over agents
    handlingAgent,      \* the selected agent, "" when none
    checked,            \* agents whose canHandle ran, in order
    processed,          \* agents whose process ran, in order
    llmCalls,           \* llmClient.complete calls of this request
    fetches,            \* fetchBaseTables calls of this request
    storeCalls,         \* select and create calls of this request, in order
    tables,             \* what fetchBaseTables returned to extractTableFromMessage
    detectedTable,      \* extractTableFromMessage's result
    targetTable,        \* detectedTable || this.tableName
    friendlyTableName,  \* resolveTableName's result
    llmResponse,        \* the text the extraction completion returned
    queryParams,        \* extractJSON's result
    recordData,         \* JSON.parse's result in the Create agent
    records,            \* the records accumulated by the find
    failure,            \* what was caught at the agent boundary, "" when nothing
    result,             \* how process ended: Return(string) or Throw(error)
    response            \* the HTTP response

startupVars == <<server, cfg, isConnected, base>>
dispatchVars == <<req, userMessage, agentIdx, handlingAgent, checked, processed>>
callVars == <<llmCalls, fetches, storeCalls>>
agentVars == <<tables, detectedTable, targetTable, friendlyTableName,
               llmResponse, queryParams, recordData, records, failure, result>>
vars == <<startupVars, served, pc, dispatchVars, callVars, agentVars, response>>

NoText == <<>>
NoResponse == [status |-> 0]

\* the state of a handler that has not started
Fresh ==
    /\ req = [hasMessages |-> FALSE]
    /\ userMessage = NoText
    /\ agentIdx = 1
    /\ handlingAgent = ""
    /\ checked = <<>>
    /\ processed = <<>>
    /\ llmCalls = 0
    /\ fetches = 0
    /\ storeCalls = <<>>
    /\ tables = <<>>
    /\ detectedTable = Undefined
    /\ targetTable = Undefined
    /\ friendlyTableName = Undefined
    /\ llmResponse = Undefined
    /\ queryParams = Undefined
    /\ recordData = Undefined
    /\ records = <<>>
    /\ failure = ""
    /\ result = Undefined
    /\ response = NoResponse

Init ==
    /\ server = "starting"
    /\ cfg \in [apiKey : BOOLEAN, baseId : BOOLEAN]
    /\ isConnected = FALSE
    /\ base \in Bases
    /\ served = 0
    /\ pc = "idle"
    /\ Fresh

(***************************************************************************)
(* Startup: startServer of server.ts.                                      *)
(***************************************************************************)
\* validateConfig without the test of the base identifier
validateConfig_ApiKeyOnly == cfg.apiKey

\* validateConfig() returns normally
validateConfig == cfg.apiKey /\ cfg.baseId

\* validateConfig(); a throw is caught at line 139 and the process exits
ValidateConfig ==
    /\ server = "starting"
    /\ server' = IF validateConfig THEN "validated" ELSE "exited"
    /\ UNCHANGED <<cfg, isConnected, base, served, pc, dispatchVars, callVars,
                   agentVars, response>>

\* await llmClient.connect(): the client is constructed and isConnected set,
\* or the constructor throws, connect rethrows and the process exits
Connect ==
    /\ server = "validated"
    /\ \E constructed \in BOOLEAN :
          /\ isConnected' = constructed
          /\ server' = IF constructed THEN "connected" ELSE "exited"
    /\ UNCHANGED <<cfg, base, served, pc, dispatchVars, callVars, agentVars,
                   response>>

\* app.listen(config.port, ...)
Listen ==
    /\ server = "connected"
    /\ server' = "listening"
    /\ UNCHANGED <<cfg, isConnected, base, served, pc, dispatchVars, callVars,
                   agentVars, response>>

(***************************************************************************)
(* The handler of POST /v1/chat/completions.                               *)
(***************************************************************************)
\* find without the test of the role: the first entry, whatever its role
find_AnyRole(messages) ==
    IF Len(messages) = 0 THEN Undefined ELSE messages[1]

\* chatRequest.messages.find((msg) => msg.role === 'user')
find(messages) ==
    LET hits == {i \in 1..Len(messages) : messages[i].role = "user"}
    IN  IF hits = {} THEN Undefined
        ELSE messages[CHOOSE i \in hits : \A j \in hits : i <= j]

InternalError == [status |-> 500, error |-> "Internal server error"]

BadRequest(error, message) ==
    [status |-> 400, error |-> error, message |-> message]

\* lines 43-57: read the body and look for the user's message
ReceiveRequest ==
    /\ server = "listening"
    /\ pc = "idle"
    /\ served < MaxRequests
    /\ served' = served + 1
    /\ \E body \in Requests :
          /\ req' = body
          /\ IF ~body.hasMessages
             THEN \* TypeError of messages.find, caught at line 99
                  /\ response' = InternalError
                  /\ pc' = "responded"
                  /\ UNCHANGED userMessage
             ELSE LET found == find(body.messages)
                  IN  IF found = Undefined
                      THEN /\ response' =
                                BadRequest("No user message found in request", NoText)
                           /\ pc' = "responded"
                           /\ UNCHANGED userMessage
                      ELSE /\ userMessage' = found.content
                           /\ pc' = "dispatch"
                           /\ UNCHANGED response
    /\ UNCHANGED <<startupVars, agentIdx, handlingAgent, checked, processed,
                   callVars, agentVars>>

\* the for loop without its break: every agent is asked, the last match wins
CheckCandidacy_NoBreak ==
    /\ pc = "dispatch"
    /\ agentIdx <= Len(agents)
    /\ LET agent == agents[agentIdx]
           chosen == IF canHandle(agent, userMessage) THEN agent ELSE handlingAgent
       IN  /\ checked' = Append(checked, agent)
           /\ handlingAgent' = chosen
           /\ agentIdx' = agentIdx + 1
           /\ IF agentIdx = Len(agents) /\ chosen # ""
              THEN /\ processed' = Append(processed, chosen)
                   /\ pc' = IF chosen = "QueryAgent" THEN "q_locate" ELSE "c_locate"
              ELSE UNCHANGED <<processed, pc>>
    /\ UNCHANGED <<startupVars, served, req, userMessage, callVars, agentVars,
                   response>>

\* one turn of the for loop of lines 59-64, and on a match the call of
\* process at line 77
CheckCandidacy ==
    /\ pc = "dispatch"
    /\ agentIdx <= Len(agents)
    /\ LET agent == agents[agentIdx]
       IN  /\ checked' = Append(checked, agent)
           /\ IF canHandle(agent, userMessage)
              THEN /\ handlingAgent' = agent
                   /\ processed' = Append(processed, agent)
                   /\ pc' = IF agent = "QueryAgent" THEN "q_locate" ELSE "c_locate"
                   /\ UNCHANGED agentIdx
              ELSE /\ agentIdx' = agentIdx + 1
                   /\ UNCHANGED <<handlingAgent, processed, pc>>
    /\ UNCHANGED <<startupVars, served, req, userMessage, callVars, agentVars,
                   response>>

\* a dispatcher that falls back to the first agent when none matched
NoAgentMatched_Fallback ==
    /\ pc = "dispatch"
    /\ agentIdx > Len(agents)
    /\ handlingAgent' = agents[1]
    /\ processed' = Append(processed, agents[1])
    /\ pc' = "q_locate"
    /\ UNCHANGED <<startupVars, served, req, userMessage, agentIdx, checked,
                   callVars, agentVars, response>>

\* lines 66-72: the loop ended without a handling agent
NoAgentMatched ==
    /\ pc = "dispatch"
    /\ agentIdx > Len(agents)
    /\ response' = BadRequest("No agent could handle this request", userMessage)
    /\ pc' = "responded"
    /\ UNCHANGED <<startupVars, served, dispatchVars, callVars, agentVars>>

\* lines 79-98: the string process returned becomes the assistant's content;
\* lines 99-105: a throw of process is answered with status 500
Reply ==
    /\ pc = "reply"
    /\ response' = IF result.threw THEN InternalError
                   ELSE [status |-> 200, content |-> result.val]
    /\ pc' = "responded"
    /\ UNCHANGED <<startupVars, served, dispatchVars, callVars, agentVars>>

\* the handler has ended; the server waits for the next request
Finish ==
    /\ pc = "responded"
    /\ pc' = "idle"
    /\ req' = [hasMessages |-> FALSE]
    /\ userMessage' = NoText
    /\ agentIdx' = 1
    /\ handlingAgent' = ""
    /\ checked' = <<>>
    /\ processed' = <<>>
    /\ llmCalls' = 0
    /\ fetches' = 0
    /\ storeCalls' = <<>>
    /\ tables' = <<>>
    /\ detectedTable' = Undefined
    /\ targetTable' = Undefined
    /\ friendlyTableName' = Undefined
    /\ llmResponse' = Undefined
    /\ queryParams' = Undefined
    /\ recordData' = Undefined
    /\ records' = <<>>
    /\ failure' = ""
    /\ result' = Undefined
    /\ response' = NoResponse
    /\ UNCHANGED <<startupVars, served>>

(***************************************************************************)
(* Collaborators: the language-model gateway and the store.                *)
(***************************************************************************)
\* what the model endpoint does with a prompt: it fails or generates a text
EndpointOutcomes(texts) == {Throw("LLMError")} \cup {Return(t) : t \in texts}

\* LLMClient.complete: raw is the endpoint's outcome
complete(raw) ==
    IF ~isConnected THEN Throw("NotConnected")
    ELSE IF raw.threw THEN raw
    ELSE Return(trim(raw.val))

\* fetchBaseTables: the listing, or [] when the fetch failed (line 39-42)
FetchOutcomes == {base, <<>>}

(***************************************************************************)
(* The strings an agent returns, as records of their variable parts.       *)
(***************************************************************************)
\* `Sorry, I encountered an error while querying: ${error}`
QueryApology(error) == [kind |-> "apology", while |-> "querying", error |-> error]
\* `Sorry, I encountered an error while creating the record: ${error}`
CreateApology(error) ==
    [kind |-> "apology", while |-> "creating the record", error |-> error]
\* `No records found in the "${friendlyTableName}" table matching your criteria.`
NoRecordsFound(table) == [kind |-> "norecords", table |-> table]
\* the summary completion, returned as it is
SummaryText(text) == [kind |-> "summary", text |-> text]
\* `Successfully created record in "${targetTable}"! ID: ... Fields: ...`
CreatedText(table, fields) == [kind |-> "created", table |-> table, fields |-> fields]

(***************************************************************************)
(* QueryAgent.process.  Every step is inside the try of line 111: a throw  *)
(* is caught at line 187 and the apology is returned.                      *)
(***************************************************************************)
\* process without its catch: the error leaves process
QueryCaught_Rethrow(error) ==
    /\ failure' = error
    /\ result' = Throw(error)
    /\ pc' = "reply"

QueryCaught(error) ==
    /\ failure' = error
    /\ result' = Return(QueryApology(error))
    /\ pc' = "reply"

\* lines 114-125: extractTableFromMessage and resolveTableName
QueryLocate ==
    /\ pc = "q_locate"
    /\ \E fetched \in FetchOutcomes, fetched2 \in FetchOutcomes :
          LET detected == extractTableFromMessage(userMessage, fetched)
              target == Or(detected, AgentTableName)
              friendly == resolveTableName(target, fetched2)
              looksLikeId == target.t = "str" /\ startsWith(target.v, TblPrefix)
          IN  /\ tables' = fetched
              /\ detectedTable' = detected
              /\ targetTable' = target
              /\ fetches' = fetches + (IF looksLikeId THEN 2 ELSE 1)
              /\ IF friendly.threw
                 THEN /\ QueryCaught(friendly.err)
                      /\ UNCHANGED friendlyTableName
                 ELSE /\ friendlyTableName' = friendly.val
                      /\ pc' = "q_complete"
                      /\ UNCHANGED <<failure, result>>
    /\ UNCHANGED <<startupVars, served, dispatchVars, llmCalls, storeCalls,
                   llmResponse, queryParams, recordData, records, response>>

\* lines 128-149: the extraction completion and extractJSON
QueryComplete ==
    /\ pc = "q_complete"
    /\ llmCalls' = llmCalls + 1
    /\ \E raw \in EndpointOutcomes(CompletionTexts) :
          LET got == complete(raw)
              params == extractJSON(got.val)
          IN  IF got.threw
              THEN /\ QueryCaught(got.err)
                   /\ UNCHANGED <<llmResponse, queryParams>>
              ELSE /\ llmResponse' = JStr(got.val)
                   /\ IF params.threw
                      THEN /\ QueryCaught(params.err)
                           /\ UNCHANGED queryParams
                      ELSE /\ queryParams' = params.val
                           /\ pc' = "q_select"
                           /\ UNCHANGED <<failure, result>>
    /\ UNCHANGED <<startupVars, served, dispatchVars, fetches, storeCalls,
                   tables, detectedTable, targetTable, friendlyTableName,
                   recordData, records, response>>

\* the options object of the select call, lines 155-158
selectOptions(params) ==
    [maxRecords |-> Or(params.maxRecords, JNum(DefaultMaxRecords)),
     filterByFormula |-> Or(params.filterByFormula, JStr(<<>>))]

\* the find without the test for zero records: the summary is always asked
QuerySelect_AlwaysSummarise ==
    /\ pc = "q_select"
    /\ storeCalls' = Append(storeCalls,
                            [op |-> "select", table |-> targetTable,
                             options |-> selectOptions(queryParams)])
    /\ \E storeFails \in BOOLEAN, found \in 0..MaxFound :
          IF storeFails
          THEN /\ QueryCaught("StoreError")
               /\ UNCHANGED records
          ELSE /\ records' = [i \in 1..found |-> [id |-> i]]
               /\ pc' = "q_summary"
               /\ UNCHANGED <<failure, result>>
    /\ UNCHANGED <<startupVars, served, dispatchVars, llmCalls, fetches,
                   tables, detectedTable, targetTable, friendlyTableName,
                   llmResponse, queryParams, recordData, response>>

\* lines 152-166: the paginated find; found is the number of records
\* accumulated over the pages, or the store fails
QuerySelect ==
    /\ pc = "q_select"
    /\ storeCalls' = Append(storeCalls,
                            [op |-> "select", table |-> targetTable,
                             options |-> selectOptions(queryParams)])
    /\ \E storeFails \in BOOLEAN, found \in 0..MaxFound :
          IF storeFails
          THEN /\ QueryCaught("StoreError")
               /\ UNCHANGED records
          ELSE /\ records' = [i \in 1..found |-> [id |-> i]]
               /\ IF found = 0
                  THEN /\ result' = Return(NoRecordsFound(friendlyTableName))
                       /\ pc' = "reply"
                       /\ UNCHANGED failure
                  ELSE /\ pc' = "q_summary"
                       /\ UNCHANGED <<failure, result>>
    /\ UNCHANGED <<startupVars, served, dispatchVars, llmCalls, fetches,
                   tables, detectedTable, targetTable, friendlyTableName,
                   llmResponse, queryParams, recordData, response>>

\* a summary completion that is asked again when it fails
QuerySummary_Retry ==
    /\ pc = "q_summary"
    /\ llmCalls' = llmCalls + 1
    /\ \E raw \in EndpointOutcomes(SummaryTexts) :
          LET got == complete(raw)
          IN  IF got.threw
              THEN IF llmCalls < 3
                   THEN UNCHANGED <<failure, result, pc>>
                   ELSE QueryCaught(got.err)
              ELSE /\ result' = Return(SummaryText(got.val))
                   /\ pc' = "reply"
                   /\ UNCHANGED failure
    /\ UNCHANGED <<startupVars, served, dispatchVars, fetches, storeCalls,
                   tables, detectedTable, targetTable, friendlyTableName,
                   llmResponse, queryParams, recordData, records, response>>

\* lines 168-186: the summary completion
QuerySummary ==
    /\ pc = "q_summary"
    /\ llmCalls' = llmCalls + 1
    /\ \E raw \in EndpointOutcomes(SummaryTexts) :
          LET got == complete(raw)
          IN  IF got.threw
              THEN QueryCaught(got.err)
              ELSE /\ result' = Return(SummaryText(got.val))
                   /\ pc' = "reply"
                   /\ UNCHANGED failure
    /\ UNCHANGED <<startupVars, served, dispatchVars, fetches, storeCalls,
                   tables, detectedTable, targetTable, friendlyTableName,
                   llmResponse, queryParams, recordData, records, response>>

(***************************************************************************)
(* CreateAgent.process.  Every step is inside the try of line 50: a throw  *)
(* is caught at line 97 and the apology is returned.                       *)
(***************************************************************************)
\* process without its catch: the error leaves process
CreateCaught_Rethrow(error) ==
    /\ failure' = error
    /\ result' = Throw(error)
    /\ pc' = "reply"

CreateCaught(error) ==
    /\ failure' = error
    /\ result' = Return(CreateApology(error))
    /\ pc' = "reply"

\* lines 53-61: extractTableFromMessage
CreateLocate ==
    /\ pc = "c_locate"
    /\ \E fetched \in FetchOutcomes :
          LET detected == extractTableFromMessage(userMessage, fetched)
          IN  /\ tables' = fetched
              /\ detectedTable' = detected
              /\ targetTable' = Or(detected, AgentTableName)
    /\ fetches' = fetches + 1
    /\ pc' = "c_complete"
    /\ UNCHANGED <<startupVars, served, dispatchVars, llmCalls, storeCalls,
                   friendlyTableName, llmResponse, queryParams, recordData,
                   records, failure, result, response>>

\* a Create agent that defaults like the Query agent: a completion that does
\* not parse gives an empty record and the create goes on
CreateComplete_Defaulting ==
    /\ pc = "c_complete"
    /\ llmCalls' = llmCalls + 1
    /\ \E raw \in EndpointOutcomes(CompletionTexts) :
          LET got == complete(raw)
              parsed == JSONParse(got.val)
          IN  IF got.threw
              THEN /\ CreateCaught(got.err)
                   /\ UNCHANGED <<llmResponse, recordData>>
              ELSE /\ llmResponse' = JStr(got.val)
                   /\ recordData' = IF parsed.ok THEN parsed.val ELSE JObj(<<>>)
                   /\ IF ~parsed.ok \/ CanRead(parsed.val)
                      THEN /\ pc' = "c_create"
                           /\ UNCHANGED <<failure, result>>
                      ELSE CreateCaught("TypeError")
    /\ UNCHANGED <<startupVars, served, dispatchVars, fetches, storeCalls,
                   tables, detectedTable, targetTable, friendlyTableName,
                   queryParams, records, response>>

\* lines 64-81: the extraction completion, JSON.parse and the read of
\* recordData.fields for the log line
CreateComplete ==
    /\ pc = "c_complete"
    /\ llmCalls' = llmCalls + 1
    /\ \E raw \in EndpointOutcomes(CompletionTexts) :
          LET got == complete(raw)
              parsed == JSONParse(got.val)
          IN  IF got.threw
              THEN /\ CreateCaught(got.err)
                   /\ UNCHANGED <<llmResponse, recordData>>
              ELSE /\ llmResponse' = JStr(got.val)
                   /\ IF ~parsed.ok
                      THEN /\ CreateCaught("SyntaxError")
                           /\ UNCHANGED recordData
                      ELSE /\ recordData' = parsed.val
                           /\ IF CanRead(parsed.val)
                              THEN /\ pc' = "c_create"
                                   /\ UNCHANGED <<failure, result>>
                              ELSE CreateCaught("TypeError")
    /\ UNCHANGED <<startupVars, served, dispatchVars, fetches, storeCalls,
                   tables, detectedTable, targetTable, friendlyTableName,
                   queryParams, records, response>>

\* lines 84-96: the create call; the store rejects it, returns the created
\* record, or returns no record
CreateRecord ==
    /\ pc = "c_create"
    /\ LET fields == Get(recordData, KeyFields)
       IN  /\ storeCalls' = Append(storeCalls,
                                   [op |-> "create", table |-> targetTable,
                                    fields |-> fields])
           /\ \E outcome \in {"rejected", "created", "none"} :
                 IF outcome = "rejected" THEN CreateCaught("StoreError")
                 ELSE IF outcome = "none" THEN CreateCaught("Failed to create record")
                 ELSE /\ result' = Return(CreatedText(targetTable, fields))
                      /\ pc' = "reply"
                      /\ UNCHANGED failure
    /\ UNCHANGED <<startupVars, served, dispatchVars, llmCalls, fetches,
                   tables, detectedTable, targetTable, friendlyTableName,
                   llmResponse, queryParams, recordData, records, response>>

(***************************************************************************)
(* Specification.                                                          *)
(***************************************************************************)
Next ==
    \/ ValidateConfig
    \/ Connect
    \/ Listen
    \/ ReceiveRequest
    \/ CheckCandidacy
    \/ NoAgentMatched
    \/ QueryLocate
    \/ QueryComplete
    \/ QuerySelect
    \/ QuerySummary
    \/ CreateLocate
    \/ CreateComplete
    \/ CreateRecord
    \/ Reply
    \/ Finish

Spec == Init /\ [][Next]_vars

(***************************************************************************)
(* Properties of the dispatcher.                                           *)
(***************************************************************************)
\* the request being handled has a messages array
Handling == pc # "idle" /\ req.hasMessages

UserEntries(messages) == {i \in 1..Len(messages) : messages[i].role = "user"}

\* the content of the last user entry of the request
LastUserText ==
    LET us == UserEntries(req.messages)
    IN  req.messages[CHOOSE i \in us : \A j \in us : i >= j].content

\* C1: a request whose messages hold no user entry is answered with the
\* "No user message found" error (status 400), and no agent's canHandle or
\* process has run.
C1_NoUserMessageRejected ==
    (Handling /\ UserEntries(req.messages) = {}) =>
        /\ pc = "responded"
        /\ response.status = 400
        /\ response.error = "No user message found in request"
        /\ checked = <<>>
        /\ processed = <<>>
        /\ llmCalls = 0 /\ fetches = 0 /\ storeCalls = <<>>

\* C1 witness: a request with entries, none of the user role, has been answered
C1_Witness ==
    /\ Handling
    /\ Len(req.messages) > 0
    /\ UserEntries(req.messages) = {}
    /\ pc = "responded"

\* C2: whenever a request with user entries is dispatched, the text given to
\* canHandle and process is the content of the last user entry.
C2_LastUserEntryDrivesDispatch ==
    (Handling /\ UserEntries(req.messages) # {}) => userMessage = LastUserText

\* the agents registered before position i that claim the message
EarlierClaimants(i) == {j \in 1..(i - 1) : canHandle(agents[j], userMessage)}

\* C3: the agents are asked one after another in registration order, the
\* first whose canHandle is true is selected, no canHandle runs after the
\* match, and process runs on exactly that one agent; "show me how to create
\* a task" goes to QueryAgent, registered before CreateAgent.
C3_FirstMatchWins ==
    /\ Len(checked) <= Len(agents)
    /\ \A i \in 1..Len(checked) : checked[i] = agents[i]
    /\ Len(processed) <= 1
    /\ handlingAgent = "" => processed = <<>>
    /\ handlingAgent # "" =>
          /\ Len(checked) >= 1
          /\ handlingAgent = agents[Len(checked)]
          /\ canHandle(handlingAgent, userMessage)
          /\ EarlierClaimants(Len(checked)) = {}
          /\ processed = <<handlingAgent>>
    /\ (handlingAgent # "" /\ userMessage = MsgShowCreate) =>
          /\ handlingAgent = "QueryAgent"
          /\ checked = <<"QueryAgent">>

\* C3 witness: a message both agents claim has been processed
C3_Witness ==
    /\ pc = "responded"
    /\ QueryCanHandle(userMessage)
    /\ CreateCanHandle(userMessage)
    /\ processed = <<"QueryAgent">>

\* no agent claims the dispatched text
NobodyClaims == \A i \in 1..Len(agents) : ~canHandle(agents[i], userMessage)

\* C4: when no agent claims the user text, the answer is the "No agent could
\* handle this request" error carrying that text as it was received, and no
\* process, completion or store call has happened.
C4_NoAgentMatched ==
    (Handling /\ UserEntries(req.messages) # {} /\ NobodyClaims) =>
        /\ pc \in {"dispatch", "responded"}
        /\ processed = <<>>
        /\ handlingAgent = ""
        /\ llmCalls = 0 /\ fetches = 0 /\ storeCalls = <<>>
        /\ pc = "responded" =>
              /\ checked = agents
              /\ response.status = 400
              /\ response.error = "No agent could handle this request"
              /\ response.message = userMessage
              /\ \E i \in UserEntries(req.messages) :
                    req.messages[i].content = response.message

\* C4 witness: a request whose user text no agent claims has been answered
C4_Witness ==
    /\ Handling
    /\ UserEntries(req.messages) # {}
    /\ NobodyClaims
    /\ pc = "responded"

(***************************************************************************)
(* Properties of the response extractor.                                   *)
(***************************************************************************)
\* the Query agent's extraction completion has returned a text
Extracted == handlingAgent = "QueryAgent" /\ llmResponse # Undefined

\* text holds a "{" with a "}" somewhere after it
HasBraceSpan(text) ==
    \E i, j \in 1..Len(text) : i < j /\ text[i] = "{" /\ text[j] = "}"

\* the substring of text from its first "{" to its last "}"
BraceSpan(text) ==
    LET i == CHOOSE a \in 1..Len(text) :
                 text[a] = "{" /\ \A b \in 1..(a - 1) : text[b] # "{"
        j == CHOOSE a \in 1..Len(text) :
                 text[a] = "}" /\ \A b \in (a + 1)..Len(text) : text[b] # "}"
    IN  SubSeq(text, i, j)

\* C5: the extractor is total: whatever text the completion returned, the
\* Query agent goes on with a parameter object of the three keys and no
\* parse or type error is raised; a text without a brace-delimited substring,
\* or whose brace-delimited substring is not JSON, gives exactly
\* {fields: [], filterByFormula: '', maxRecords: 10}.
C5_ExtractorTotal ==
    Extracted =>
        /\ failure \notin {"SyntaxError", "TypeError"}
        /\ pc \in {"q_select", "q_summary", "reply", "responded"}
        /\ queryParams # Undefined
        /\ DOMAIN queryParams = {"fields", "filterByFormula", "maxRecords"}
        /\ (~HasBraceSpan(llmResponse.v) \/ ~JSONParse(BraceSpan(llmResponse.v)).ok) =>
              /\ queryParams.fields = JArr(<<>>)
              /\ queryParams.filterByFormula = JStr(<<>>)
              /\ queryParams.maxRecords = JNum(10)

\* C5 witness: a text with braces around something that is not JSON has
\* been extracted
C5_Witness ==
    /\ Extracted
    /\ HasBraceSpan(llmResponse.v)
    /\ ~JSONParse(BraceSpan(llmResponse.v)).ok
    /\ pc = "q_select"

\* the completion bodies that are one well-formed JSON object
JsonObjectBodies ==
    {b \in CompletionBodies : JSONParse(b).ok /\ JSONParse(b).val.t = "obj"}

HasKey(object, key) == \E i \in 1..Len(object.v) : object.v[i][1] = key

\* the parameters of a JSON object, with defaults for absent keys
ParamsOf(object) ==
    [fields |-> IF HasKey(object, KeyFields) THEN Get(object, KeyFields)
                ELSE JArr(<<>>),
     filterByFormula |->
         IF HasKey(object, KeyFilterByFormula) THEN Get(object, KeyFilterByFormula)
         ELSE JStr(<<>>),
     maxRecords |-> IF HasKey(object, KeyMaxRecords) THEN Get(object, KeyMaxRecords)
                    ELSE JNum(10)]

\* the parameters of a JSON object, with defaults for absent keys and for
\* keys whose value is falsy (0, "", null, false)
TruthyParamsOf(object) ==
    LET p == ParamsOf(object)
    IN  [fields |-> IF Truthy(p.fields) THEN p.fields ELSE JArr(<<>>),
         filterByFormula |->
             IF Truthy(p.filterByFormula) THEN p.filterByFormula ELSE JStr(<<>>),
         maxRecords |-> IF Truthy(p.maxRecords) THEN p.maxRecords ELSE JNum(10)]

\* the texts made of commentary, one well-formed JSON object and commentary,
\* as complete returns them, each with the object embedded in it
ProseCases ==
    {[text |-> trim(l \o b \o t),
      object |-> JSONParse(b).val,
      braceFree |-> /\ \A i \in 1..Len(l) : l[i] # "{"
                    /\ \A i \in 1..Len(t) : t[i] # "}"] :
        l \in Leads, b \in JsonObjectBodies, t \in Trails}

\* C6 as claimed: for a text made of commentary, one well-formed JSON object
\* and commentary, whatever the commentary holds, the extractor returns the
\* parameters of that object, with defaults for absent keys.
C6_RecoversJsonInAnyProse ==
    \A c \in ProseCases :
        (Extracted /\ llmResponse.v = c.text) => queryParams = ParamsOf(c.object)

\* C6 as amended: when the leading commentary holds no "{" and the trailing
\* commentary holds no "}", the extractor returns the parameters of the
\* embedded object, each key defaulted when it is absent or its value falsy.
C6_RecoversJsonInBraceFreeProse ==
    \A c \in ProseCases :
        (Extracted /\ llmResponse.v = c.text /\ c.braceFree) =>
            queryParams = TruthyParamsOf(c.object)

\* "Sure! {"filterByFormula": "X", "maxRecords": 3} Hope that helps."
ProseExample ==
    <<"S", "u", "r", "e", "!", " ", "{", "\"", "f", "i", "l", "t", "e", "r", "B", "y",
       "F", "o", "r", "m", "u", "l", "a", "\"", ":", " ", "\"", "X", "\"", ",", " ", "\"",
       "m", "a", "x", "R", "e", "c", "o", "r", "d", "s", "\"", ":", " ", "3", "}", " ",
       "H", "o", "p", "e", " ", "t", "h", "a", "t", " ", "h", "e", "l", "p", "s", ".">>

\* C6 witness: the example of JSON inside prose has been extracted to
\* {filterByFormula: "X", maxRecords: 3, fields: []}
C6_Witness ==
    /\ Extracted
    /\ llmResponse.v = ProseExample
    /\ queryParams.maxRecords = JNum(3)
    /\ queryParams.filterByFormula = JStr(<<"X">>)
    /\ queryParams.fields = JArr(<<>>)

(***************************************************************************)
(* Properties of the table locator.                                        *)
(***************************************************************************)
TemplateHeads == {<<"i", "n", " ", "t", "h", "e", " ">>, <<"f", "r", "o", "m", " ", "t", "h", "e", " ">>, <<"i", "n", " ">>, <<"f", "r", "o", "m", " ">>}
TemplateTails == {<<" ", "t", "a", "b", "l", "e">>, <<>>}

\* message holds template somewhere, letter case ignored
ContainsIgnoringCase(message, template) ==
    \E p \in 1..(Len(message) - Len(template) + 1) :
        \A k \in 1..Len(template) :
            LowerChar(message[p + k - 1]) = LowerChar(template[k])

\* one of the eight phrasings of the table name is in the message
Mentions(message, name) ==
    \E h \in TemplateHeads, tl \in TemplateTails :
        ContainsIgnoringCase(message, h \o name \o tl)

\* Mentions, for the user texts and the table names of the model
MentionsTable ==
    [m \in UserTexts, n \in {TableTasks.name, TableProjects.name} |-> Mentions(m, n)]

\* the selected agent has run the table locator
Located == fetches >= 1

\* C7: the locator returns the display name of the first table of the fetched
\* listing one of whose eight phrasings is in the message, letter case
\* ignored; it returns null when no table is mentioned or the listing is
\* empty; a returned name is a display name of the listing.
C7_TableLocator ==
    Located =>
        LET hits == {i \in 1..Len(tables) : MentionsTable[userMessage, tables[i].name]}
        IN  /\ hits = {} => detectedTable = JNull
            /\ hits # {} =>
                  detectedTable =
                      JStr(tables[CHOOSE i \in hits : \A j \in hits : i <= j].name)
            /\ detectedTable # JNull =>
                  \E i \in 1..Len(tables) : detectedTable = JStr(tables[i].name)

\* C7 witness: a message that mentions both tables has been located to the
\* first table of the listing
C7_Witness ==
    /\ Located
    /\ Len(tables) = 2
    /\ \A i \in 1..2 : MentionsTable[userMessage, tables[i].name]
    /\ detectedTable = JStr(tables[1].name)

(***************************************************************************)
(* Properties of the agents.                                               *)
(***************************************************************************)
Answered == pc \in {"reply", "responded"}

\* the find of the Query agent has returned and accumulated no record
FoundNothing ==
    /\ handlingAgent = "QueryAgent"
    /\ Len(storeCalls) = 1
    /\ failure = ""
    /\ records = <<>>

\* C8: when the find returns zero records the Query agent returns the "No
\* records found" sentence naming the table, and the extraction completion
\* is the only completion of the request.
C8_NoRecordsNoSummary ==
    FoundNothing =>
        /\ Answered
        /\ result = Return(NoRecordsFound(friendlyTableName))
        /\ friendlyTableName.t = "str"
        /\ storeCalls[1].op = "select"
        /\ \E listing \in FetchOutcomes :
              resolveTableName(storeCalls[1].table, listing) = Return(friendlyTableName)
        /\ llmCalls = 1
        /\ pc = "responded" =>
              /\ response.status = 200
              /\ response.content = NoRecordsFound(friendlyTableName)

\* C8 witness: a find that returned nothing has been answered
C8_Witness == FoundNothing /\ pc = "responded"

\* the Create agent's extraction completion returned a text that is not JSON
CreateUnparseable ==
    /\ handlingAgent = "CreateAgent"
    /\ llmResponse # Undefined
    /\ ~JSONParse(llmResponse.v).ok

\* C9: when the Create agent's completion does not parse as JSON, it returns
\* the apology embedding the parse error and no create call is issued.
C9_CreateParseFailure ==
    CreateUnparseable =>
        /\ Answered
        /\ failure = "SyntaxError"
        /\ result = Return(CreateApology("SyntaxError"))
        /\ storeCalls = <<>>
        /\ pc = "responded" =>
              /\ response.status = 200
              /\ response.content = CreateApology("SyntaxError")

\* C9 witness: an unparseable completion of the Create agent has been answered
C9_Witness == CreateUnparseable /\ pc = "responded"

\* C10: a failure inside the selected agent's process is returned as an
\* apology embedding the error, which becomes the content of a status-200
\* response; no second agent is asked or run, no step is repeated, and the
\* server keeps listening and goes on to the next request.
C10_FailureBecomesApology ==
    failure # "" =>
        /\ Answered
        /\ server = "listening"
        /\ ~result.threw
        /\ result.val.kind = "apology"
        /\ result.val.error = failure
        /\ processed = <<handlingAgent>>
        /\ handlingAgent = agents[Len(checked)]
        /\ llmCalls <= 2
        /\ Len(storeCalls) <= 1
        /\ pc = "responded" =>
              /\ response.status = 200
              /\ response.content = result.val
              /\ ENABLED Finish

\* C10 witness: a request whose store call failed has been answered, and
\* it was not the first request the server handled
C10_Witness ==
    /\ failure = "StoreError"
    /\ pc = "responded"
    /\ response.status = 200
    /\ served = 2

(***************************************************************************)
(* Properties of the gateway and of startup.                               *)
(***************************************************************************)
\* a completion call of the selected agent has thrown
GatewayFailed == failure \in {"LLMError", "NotConnected"}

\* C11 as claimed: a completion call that throws while an agent is processing
\* is answered with the generic status-500 error.
C11_GatewayFailureIs500 ==
    (GatewayFailed /\ pc = "responded") =>
        /\ response.status = 500
        /\ response.error = "Internal server error"

\* C11 as amended: a completion call that throws while an agent is processing
\* is caught by that agent and answered with status 200, the content being
\* the agent's apology with the error in it; the steps after the failed
\* completion are not run.
C11_GatewayFailureIsApology ==
    GatewayFailed =>
        /\ Answered
        /\ ~result.threw
        /\ result.val =
              (IF handlingAgent = "QueryAgent" THEN QueryApology(failure)
               ELSE CreateApology(failure))
        /\ llmCalls = 1 => storeCalls = <<>>
        /\ handlingAgent = "CreateAgent" => llmCalls = 1
        /\ pc = "responded" =>
              /\ response.status = 200
              /\ response.content.kind = "apology"
              /\ response.content.error = failure

\* C11 witness: a failed completion of each agent's kind has been answered
C11_Witness ==
    /\ failure = "LLMError"
    /\ handlingAgent = "CreateAgent"
    /\ pc = "responded"

\* C12: the server listens only after validateConfig and connect succeeded;
\* with a missing API key or base identifier, or a failed connect, the
\* process exits and no request is received; no completion is asked of an
\* unconnected gateway.
C12_StartupOrdering ==
    /\ server \in {"connected", "listening"} =>
          cfg.apiKey /\ cfg.baseId /\ isConnected
    /\ server = "validated" => cfg.apiKey /\ cfg.baseId
    /\ (pc # "idle" \/ served > 0) => server = "listening"
    /\ (~cfg.apiKey \/ ~cfg.baseId) =>
          server \in {"starting", "exited"} /\ served = 0
    /\ server = "exited" => served = 0 /\ pc = "idle"
    /\ llmCalls > 0 => isConnected
    /\ failure # "NotConnected"

\* C12 witness: a request that asked a completion has been answered
C12_Witness ==
    /\ server = "listening"
    /\ pc = "responded"
    /\ llmCalls >= 1

(***************************************************************************)
(* Properties of the calls an agent makes.                                 *)
(***************************************************************************)
\* C13: a request issues at most two completions and at most one find or
\* create; the Create agent never issues a find (and one completion at
\* most), the Query agent never issues a create.
C13_CallBudget ==
    /\ llmCalls \in 0..2
    /\ Len(storeCalls) <= 1
    /\ handlingAgent = "" => llmCalls = 0 /\ storeCalls = <<>>
    /\ \A i \in 1..Len(storeCalls) :
          /\ handlingAgent = "QueryAgent" => storeCalls[i].op = "select"
          /\ handlingAgent = "CreateAgent" => storeCalls[i].op = "create"
    /\ handlingAgent = "CreateAgent" => llmCalls <= 1

\* C13 witness: a request with two completions and one find has been answered
C13_Witness ==
    /\ pc = "responded"
    /\ llmCalls = 2
    /\ Len(storeCalls) = 1
    /\ storeCalls[1].op = "select"

\* C14: the target table is the located table when there is one and the
\* configured default table otherwise; a find or create for a message that
\* mentions no table goes to a defined table name.
C14_DefaultTableDefined ==
    /\ (Located /\ detectedTable # JNull) => targetTable = detectedTable
    /\ (Located /\ detectedTable = JNull) => targetTable.t = "str"
    /\ \A i \in 1..Len(storeCalls) : storeCalls[i].table.t = "str"

\* C15: what the extractor returns is well typed: fields is a list,
\* filterByFormula a string, maxRecords an integer.
C15_ParamsWellTyped ==
    Extracted =>
        /\ queryParams.fields.t = "arr"
        /\ queryParams.filterByFormula.t = "str"
        /\ queryParams.maxRecords.t = "num"

\* the field selection a select call carries; none is the empty selection
CarriedFields(options) ==
    IF "fields" \in DOMAIN options THEN options.fields ELSE JArr(<<>>)

\* C16: the find carries the field-selection list, the filter formula and
\* the maximum-record count the extractor returned.
C16_FindCarriesParams ==
    \A i \in 1..Len(storeCalls) :
        storeCalls[i].op = "select" =>
            /\ storeCalls[i].options.maxRecords = queryParams.maxRecords
            /\ storeCalls[i].options.filterByFormula = queryParams.filterByFormula
            /\ CarriedFields(storeCalls[i].options) = queryParams.fields

\* C17: a create is issued only with a field mapping: a completion that is
\* JSON without a fields mapping leads to no create call.
C17_CreateOnlyWithFields ==
    \A i \in 1..Len(storeCalls) :
        storeCalls[i].op = "create" => storeCalls[i].fields.t = "obj"

\* C18: a message with a ListTables phrasing is processed by the ListTables
\* agent, without any completion.
C18_ListTablesReachable ==
    (handlingAgent # "" /\ ListTablesCanHandle(userMessage)) =>
        /\ handlingAgent = "ListTablesAgent"
        /\ llmCalls = 0

====
